---- MODULE Spec2Model ----
(***************************************************************************)
(* Taskist: the task REST API (server/index.js over Postgres, and its      *)
(* SQLite variant) and the part of the React client (TaskApp.jsx) that     *)
(* holds and sorts the task list.                                          *)
(*                                                                         *)
(* Conventions                                                             *)
(*  - A JavaScript string is a sequence of one-character strings, so that  *)
(*    trim(), toLowerCase(), includes() and .length are computed.          *)
(*  - A JSON value is a tagged record [t |-> type, v |-> value].           *)
(*  - Wall-clock time `now` is counted in ticks, TicksPerSecond ticks to   *)
(*    the second; jsonwebtoken works in whole seconds,                     *)
(*    Math.floor(Date.now() / 1000).                                       *)
(*  - Each route is an operator giving the handler's outcome for a request *)
(*    in the current state: the response (status, body), the storage       *)
(*    statements it executed (stmts) and the store it leaves.  The actions  *)
(*    apply these outcomes, so a property of the outcome of every request   *)
(*    in every reachable state is a property of every step.                 *)
(*  - `last` logs the exchange completed by the last step: route, the      *)
(*    Authorization header, the :id segment, the email sent and the status. *)
(***************************************************************************)
EXTENDS Integers, Sequences, FiniteSets, TLC

VARIABLES
    variant,    \* "sqlite" (synchronous handlers) or "postgres" (awaits)
    storageUp,  \* the database answers; FALSE while its statements fail
    legacy,     \* sqlite: the tasks table predates owner_id (column added by
                \* ALTER TABLE ... DEFAULT 0, no FOREIGN KEY clause)
    users,      \* table users: set of [id, email, password_hash]
    tasks,      \* table tasks: set of [id, owner_id, title, completed]
    userSeq,    \* last value handed out by users.id (SERIAL / AUTOINCREMENT)
    taskSeq,    \* last value handed out by tasks.id
    now,        \* Date.now(), in ticks
    held,       \* tokens clients hold: [token, at], `at` the tick it was issued
    pendingReg, \* postgres: register requests between their SELECT and INSERT
    pendingPut, \* postgres: PUT requests between their two UPDATEs
    last,       \* the exchange completed by the last step
    creator,    \* per stored task id: the user whose token sent the POST
    cTasks,     \* client: the `tasks` state of TaskApp
    cSortBy,    \* client: the `sortBy` state of TaskApp
    cFilterStatus, \* client: the `filterStatus` state of TaskApp
    cChosen,    \* client: the priority the user picked in the form, per task id
    cToken,     \* client: the `token` state of TaskApp and localStorage.token
    cEditingId, \* client: the `editingId` state of TaskApp (0: null)
    cError,     \* client: the `error` state of TaskApp
    cNet        \* client: the fetches of TaskApp not yet resolved

vars == <<variant, storageUp, legacy, users, tasks, userSeq, taskSeq, now, held, pendingReg, pendingPut,
          last, creator, cTasks, cSortBy, cFilterStatus, cChosen,
          cToken, cEditingId, cError, cNet>>

env    == <<variant, storageUp, legacy>>
store  == <<users, tasks, userSeq, taskSeq>>
session == <<cToken, cEditingId, cError, cNet>>
client == <<cTasks, cSortBy, cFilterStatus, cChosen, session>>

-----------------------------------------------------------------------------
(* Bounds of the model *)

MaxTaskSeq == 1    \* at most this many task ids are handed out
MaxUserSeq == 2    \* at most this many user ids are handed out
MaxPending == 2    \* at most this many register requests in flight
MaxHeld    == 2    \* clients keep at most this many tokens
Slack      == 1    \* the clock visits this many ticks around each instant
MaxClientTasks == 3  \* the client adds at most this many tasks
MaxListSeq == 3
MaxPendingPut == 2
MaxSortTasks == 3
MaxNet == 2    \* task ids handed out where several tasks are stored together

(* Program constants *)

ExpiresIn      == 7200  \* expiresIn: "2h", in seconds
MinPassword    == 4     \* password.length < 4
MinTitle       == 2     \* title.length < 2
ClientMinTitle == 2     \* trimmed.length < 2, in the client's addTask
TicksPerSecond == 2

-----------------------------------------------------------------------------
(* JavaScript strings *)

IsWhitespace(c) == c \in {" ", "\t"}

LowerChar(c) ==
    CASE c = "A" -> "a"
      [] c = "B" -> "b"
      [] c = "X" -> "x"
      [] OTHER   -> c

\* String.prototype.toLowerCase
toLowerCase(s) == [i \in 1..Len(s) |-> LowerChar(s[i])]

RECURSIVE trimStart(_)
trimStart(s) ==
    IF s # <<>> /\ IsWhitespace(Head(s)) THEN trimStart(Tail(s)) ELSE s

RECURSIVE trimEnd(_)
trimEnd(s) ==
    IF s # <<>> /\ IsWhitespace(s[Len(s)])
    THEN trimEnd(SubSeq(s, 1, Len(s) - 1))
    ELSE s

\* String.prototype.trim
trim(s) == trimEnd(trimStart(s))

\* String.prototype.includes, for a one-character needle
includes(s, c) == \E i \in 1..Len(s) : s[i] = c

-----------------------------------------------------------------------------
(* JSON values of a request body *)

Undefined == [t |-> "undefined"]
JStr(s)   == [t |-> "string", v |-> s]
JBool(b)  == [t |-> "boolean", v |-> b]
JNum(n)   == [t |-> "number", v |-> n]

typeof(x) == x.t

Digit(d) == CASE d = 0 -> "0" [] d = 1 -> "1" [] d = 2 -> "2" [] d = 3 -> "3"
              [] d = 4 -> "4" [] d = 5 -> "5" [] d = 6 -> "6" [] d = 7 -> "7"
              [] d = 8 -> "8" [] d = 9 -> "9"

RECURSIVE NumToString(_)
NumToString(n) ==
    IF n < 10 THEN <<Digit(n)>> ELSE Append(NumToString(n \div 10), Digit(n % 10))

\* x || ""  : the value itself when truthy, else the empty string
OrEmpty(x) ==
    CASE x.t = "undefined" -> JStr(<<>>)
      [] x.t = "string"    -> x
      [] x.t = "boolean"   -> IF x.v THEN x ELSE JStr(<<>>)
      [] x.t = "number"    -> IF x.v # 0 THEN x ELSE JStr(<<>>)

\* String(x)
String(x) ==
    CASE x.t = "string"    -> x.v
      [] x.t = "boolean"   -> IF x.v THEN <<"t", "r", "u", "e">>
                                     ELSE <<"f", "a", "l", "s", "e">>
      [] x.t = "number"    -> NumToString(x.v)
      [] x.t = "undefined" -> <<"u", "n", "d", "e", "f", "i", "n", "e", "d">>

NaN == [t |-> "NaN"]

IsDigit(c) == c \in {"0", "1", "2", "3", "4", "5", "6", "7", "8", "9"}

DigitValue(c) == CHOOSE d \in 0..9 : Digit(d) = c

RECURSIVE DigitsValue(_)
DigitsValue(s) ==
    IF s = <<>> THEN 0
    ELSE 10 * DigitsValue(SubSeq(s, 1, Len(s) - 1)) + DigitValue(s[Len(s)])

\* Number(req.params.id), for a non-empty path segment
Number(s) ==
    IF \A i \in 1..Len(s) : IsDigit(s[i]) THEN JNum(DigitsValue(s)) ELSE NaN

-----------------------------------------------------------------------------
(* Tokens: jsonwebtoken's sign and verify with JWT_SECRET *)

\* Math.floor(Date.now() / 1000)
NowSeconds == now \div TicksPerSecond

Malformed == [id |-> 0, email |-> <<>>, iat |-> 0, exp |-> 0, sig |-> "none"]

createToken_NoId(user) ==
    [id    |-> 0,
     email |-> user.email,
     iat   |-> NowSeconds,
     exp   |-> NowSeconds + ExpiresIn,
     sig   |-> "JWT_SECRET"]

\* jwt.sign({ id, email }, JWT_SECRET, { expiresIn: "2h" })
createToken(user) ==
    [id    |-> user.id,
     email |-> user.email,
     iat   |-> NowSeconds,
     exp   |-> NowSeconds + ExpiresIn,
     sig   |-> "JWT_SECRET"]

verify_NoSignature(token) == NowSeconds < token.exp

verify_Inclusive(token) ==
    /\ token.sig = "JWT_SECRET"
    /\ NowSeconds <= token.exp

verify_OneSession(token) ==
    /\ token.sig = "JWT_SECRET"
    /\ NowSeconds < token.exp
    /\ token = cToken

\* jwt.verify(token, JWT_SECRET) does not throw
verify(token) ==
    /\ token.sig = "JWT_SECRET"
    /\ NowSeconds < token.exp

\* The Authorization header: absent, another scheme, or "Bearer <token>"
NoHeader         == [scheme |-> "none", token |-> Malformed]
BasicHeader      == [scheme |-> "Basic", token |-> Malformed]
Bearer(token)    == [scheme |-> "Bearer", token |-> token]

-----------------------------------------------------------------------------
(* Requests, responses and handler outcomes *)

EmptyBody ==
    [email |-> Undefined, password |-> Undefined, title |-> Undefined,
     completed |-> Undefined, priority |-> Undefined, status |-> Undefined,
     dueDate |-> Undefined, owner_id |-> Undefined]

NoResp == [status |-> 0, body |-> [kind |-> "none"], stmts |-> <<>>]

NoLast == [op |-> "none", auth |-> NoHeader, id |-> <<>>, email |-> Undefined,
           status |-> 0]

ErrorBody(msg) == [kind |-> "error", error |-> msg]

\* The handler answered without changing the store
Reply(status, body, stmts) ==
    [status |-> status, body |-> body, stmts |-> stmts,
     users |-> users, tasks |-> tasks, userSeq |-> userSeq, taskSeq |-> taskSeq,
     issued |-> {}]

\* catch (err) { res.status(500).json({ error: "Server error" }) } in the
\* postgres variant; the sqlite variant has no try/catch, so express's default
\* error handler answers 500 with an HTML page.
ServerErrorIn(v, stmts) ==
    IF v = "postgres"
    THEN Reply(500, ErrorBody("Server error"), stmts)
    ELSE Reply(500, [kind |-> "html"], stmts)

ServerError(stmts) == ServerErrorIn(variant, stmts)

\* requireAuth: the 401 it sends, or NoResp when it calls next()
requireAuth(auth) ==
    IF auth.scheme # "Bearer"
    THEN [status |-> 401, body |-> ErrorBody("Missing token"), stmts |-> <<>>]
    ELSE IF ~verify(auth.token)
    THEN [status |-> 401, body |-> ErrorBody("Invalid or expired token"),
          stmts |-> <<>>]
    ELSE NoResp

Authed(auth) == requireAuth(auth) = NoResp

Rejected(auth) ==
    LET r == requireAuth(auth) IN Reply(r.status, r.body, r.stmts)

-----------------------------------------------------------------------------
(* Storage statements *)

\* bcrypt.hashSync(password, 10) and bcrypt.compareSync(password, hash)
hashSync(password) == [alg |-> "bcrypt", cost |-> 10, of |-> password]
compareSync(password, hash) == hash = hashSync(password)

\* SELECT id, email, password_hash FROM users WHERE email = ?
stmtFindUserByEmail(email) == {u \in users : u.email = email}

EmailUnique_Off(email) == TRUE

\* email TEXT NOT NULL UNIQUE
EmailUnique(email) == \A u \in users : u.email # email

RECURSIVE OrderByIdAsc(_)
OrderByIdAsc(S) ==
    IF S = {} THEN <<>>
    ELSE LET m == CHOOSE t \in S : \A u \in S : u.id >= t.id
         IN <<[id |-> m.id, title |-> m.title, completed |-> m.completed]>>
            \o OrderByIdAsc(S \ {m})

\* SELECT id, title, completed FROM tasks WHERE owner_id = ? ORDER BY id DESC
RECURSIVE OrderByIdDesc(_)
OrderByIdDesc(S) ==
    IF S = {} THEN <<>>
    ELSE LET m == CHOOSE t \in S : \A u \in S : u.id <= t.id
         IN <<[id |-> m.id, title |-> m.title, completed |-> m.completed]>>
            \o OrderByIdDesc(S \ {m})

stmtGetAllTasksForUser(T, owner) ==
    OrderByIdDesc({t \in T : t.owner_id = owner})

\* completed INTEGER NOT NULL DEFAULT 0 (sqlite), BOOLEAN NOT NULL DEFAULT FALSE
\* (postgres)
DefaultCompleted == IF variant = "sqlite" THEN 0 ELSE FALSE

StoredCompleted_Default(completed) == DefaultCompleted

\* The value bound to SET completed = ?: completed ? 1 : 0 (sqlite), completed
\* (postgres)
StoredCompleted(completed) ==
    IF variant = "sqlite" THEN (IF completed THEN 1 ELSE 0) ELSE completed

\* rows.map((t) => ({ ...t, completed: !!t.completed })) (sqlite); the rows as
\* they are (postgres)
ReadCompleted(rows) ==
    IF variant = "sqlite"
    THEN [i \in 1..Len(rows) |-> [rows[i] EXCEPT !.completed = (@ # 0)]]
    ELSE rows

\* The array GET /api/tasks responds with when the table holds T
listRows(T, owner) == ReadCompleted(stmtGetAllTasksForUser(T, owner))

Matching_AnyOwner(T, taskId, owner) ==
    {t \in T : taskId.t = "number" /\ t.id = taskId.v}

\* WHERE id = ? AND owner_id = ?
Matching(T, taskId, owner) ==
    {t \in T : taskId.t = "number" /\ t.id = taskId.v /\ t.owner_id = owner}

stmtUpdateTitle_ResetsCompleted(T, title, taskId, owner) ==
    {IF taskId.t = "number" /\ t.id = taskId.v /\ t.owner_id = owner
     THEN [t EXCEPT !.title = title, !.completed = DefaultCompleted] ELSE t : t \in T}

\* UPDATE tasks SET title = ? WHERE id = ? AND owner_id = ?
stmtUpdateTitle(T, title, taskId, owner) ==
    {IF taskId.t = "number" /\ t.id = taskId.v /\ t.owner_id = owner
     THEN [t EXCEPT !.title = title] ELSE t : t \in T}

\* UPDATE tasks SET completed = ? WHERE id = ? AND owner_id = ?
stmtUpdateCompleted(T, completed, taskId, owner) ==
    {IF taskId.t = "number" /\ t.id = taskId.v /\ t.owner_id = owner
     THEN [t EXCEPT !.completed = completed] ELSE t : t \in T}

stmtDeleteTask_AllOfOwner(T, taskId, owner) == {t \in T : t.owner_id # owner}

\* DELETE FROM tasks WHERE id = ? AND owner_id = ?
stmtDeleteTask(T, taskId, owner) == T \ Matching(T, taskId, owner)

\* owner_id INTEGER NOT NULL REFERENCES users(id)
OwnerExists(owner) == \E u \in users : u.id = owner

\* The tasks table carries the FOREIGN KEY clause: it was made by this
\* CREATE TABLE, not by an earlier one that ALTER TABLE completed
ForeignKey == ~legacy

\* ON DELETE CASCADE: the tasks left when user id is deleted
Cascade(T, id) == IF ForeignKey THEN {t \in T : t.owner_id # id} ELSE T

\* DELETE FROM users WHERE id = ?, run on the database by an administrator
deleteUser(id) ==
    [users |-> {u \in users : u.id # id}, tasks |-> Cascade(tasks, id)]

-----------------------------------------------------------------------------
(* Handlers: the outcome of each route for a request, in the current state *)

Proceed == Reply(0, [kind |-> "none"], <<>>)

EmailOf_NoLowerCase(body) == trim(String(OrEmpty(body.email)))

\* String(req.body.email || "").trim().toLowerCase()
EmailOf(body)    == toLowerCase(trim(String(OrEmpty(body.email))))

\* String(req.body.password || "")
PasswordOf(body) == String(OrEmpty(body.password))

registerChecks_DuplicateFirst(body) ==
    LET email    == EmailOf(body)
        password == PasswordOf(body)
    IN  IF stmtFindUserByEmail(email) # {}
        THEN Reply(409, ErrorBody("Email already registered."), <<"FindUserByEmail">>)
        ELSE IF ~includes(email, "@")
        THEN Reply(400, ErrorBody("Enter a valid email."), <<>>)
        ELSE IF Len(password) < MinPassword
        THEN Reply(400, ErrorBody("Password must be at least 4 characters."), <<>>)
        ELSE Proceed

\* POST /api/auth/register up to the INSERT: the 400 or 409 it sends, or Proceed
registerChecks(body) ==
    LET email    == EmailOf(body)
        password == PasswordOf(body)
    IN  IF ~includes(email, "@")
        THEN Reply(400, ErrorBody("Enter a valid email."), <<>>)
        ELSE IF Len(password) < MinPassword
        THEN Reply(400, ErrorBody("Password must be at least 4 characters."), <<>>)
        ELSE IF ~storageUp
        THEN ServerError(<<"FindUserByEmail">>)
        ELSE IF stmtFindUserByEmail(email) # {}
        THEN Reply(409, ErrorBody("Email already registered."), <<"FindUserByEmail">>)
        ELSE Proceed

\* The INSERT with an id that is one above the largest id stored
registerInsert_ReuseId(email, password) ==
    LET stmts == <<"FindUserByEmail", "CreateUser">>
        ids   == {u.id : u \in users} \cup {0}
        id    == (CHOOSE m \in ids : \A i \in ids : i <= m) + 1
        user  == [id |-> id, email |-> email,
                  password_hash |-> hashSync(password)]
        token == createToken(user)
    IN  IF ~storageUp \/ ~EmailUnique(email)
        THEN ServerError(stmts)
        ELSE [Reply(201, [kind |-> "token", token |-> token], stmts) EXCEPT
                 !.users = users \cup {user}, !.userSeq = id,
                 !.issued = {token}]

\* POST /api/auth/register from the INSERT on
registerInsert(email, password) ==
    LET stmts == <<"FindUserByEmail", "CreateUser">>
    IN  IF ~storageUp
        THEN ServerError(stmts)
        ELSE IF ~EmailUnique(email)
        THEN \* the INSERT fails; a SERIAL value is consumed all the same
             [ServerError(stmts) EXCEPT
                 !.userSeq = IF variant = "postgres" THEN userSeq + 1 ELSE userSeq]
        ELSE LET id    == userSeq + 1
                 user  == [id |-> id, email |-> email,
                           password_hash |-> hashSync(password)]
                 token == createToken(user)
             IN  [Reply(201, [kind |-> "token", token |-> token], stmts) EXCEPT
                     !.users = users \cup {user}, !.userSeq = id,
                     !.issued = {token}]

\* POST /api/auth/register on arrival: the whole handler in the sqlite variant;
\* in the postgres variant up to the await of the INSERT (Proceed: in flight)
registerArrival(body) ==
    LET c == registerChecks(body)
    IN  IF c.status # 0 THEN c
        ELSE IF variant = "sqlite"
        THEN registerInsert(EmailOf(body), PasswordOf(body))
        ELSE Proceed

noUserReply_Leaky(stmts) == Reply(404, ErrorBody("User not found."), stmts)

\* if (!user) return res.status(401).json({ error: "Invalid credentials." })
noUserReply(stmts) == Reply(401, ErrorBody("Invalid credentials."), stmts)

\* if (!ok) return res.status(401).json({ error: "Invalid credentials." })
badPasswordReply(stmts) == Reply(401, ErrorBody("Invalid credentials."), stmts)

\* POST /api/auth/login
login(body) ==
    LET email    == EmailOf(body)
        password == PasswordOf(body)
        found    == stmtFindUserByEmail(email)
        stmts    == <<"FindUserByEmail">>
    IN  IF ~storageUp
        THEN ServerError(stmts)
        ELSE IF found = {}
        THEN noUserReply(stmts)
        ELSE LET user == CHOOSE u \in found : TRUE
             IN  IF ~compareSync(password, user.password_hash)
                 THEN badPasswordReply(stmts)
                 ELSE LET token == createToken(user)
                      IN  [Reply(200, [kind |-> "token", token |-> token], stmts)
                             EXCEPT !.issued = {token}]

\* GET /api/tasks
getTasks(auth) ==
    IF ~Authed(auth) THEN Rejected(auth)
    ELSE IF ~storageUp THEN ServerError(<<"GetAllTasksForUser">>)
    ELSE Reply(200, [kind |-> "rows", rows |-> listRows(tasks, auth.token.id)],
               <<"GetAllTasksForUser">>)

insertOwner_FromBody(auth, body) ==
    IF typeof(body.owner_id) = "number" THEN body.owner_id.v ELSE auth.token.id

\* The owner_id POST /api/tasks inserts: req.user.id
insertOwner(auth, body) == auth.token.id

postTitle_Untrimmed(body) == String(OrEmpty(body.title))

\* String(req.body.title || "").trim()
postTitle(body) == trim(String(OrEmpty(body.title)))

\* POST /api/tasks
postTask(auth, body) ==
    IF ~Authed(auth) THEN Rejected(auth)
    ELSE
    LET title == postTitle(body)
        owner == insertOwner(auth, body)
        id    == taskSeq + 1
    IN  IF Len(title) < MinTitle
        THEN Reply(400, ErrorBody("Title must be at least 2 characters."), <<>>)
        ELSE IF ~storageUp
        THEN ServerError(<<"InsertTask">>)
        ELSE IF ForeignKey /\ ~OwnerExists(owner)
        THEN [ServerError(<<"InsertTask">>) EXCEPT
                 !.taskSeq = IF variant = "postgres" THEN id ELSE taskSeq]
        ELSE [Reply(201, [kind |-> "task", id |-> id, title |-> title,
                          completed |-> FALSE], <<"InsertTask">>)
                EXCEPT !.tasks = tasks \cup {[id |-> id, owner_id |-> owner,
                                              title |-> title,
                                              completed |-> DefaultCompleted]},
                       !.taskSeq = id]

notFound_Forbidden(taskId, stmts) ==
    IF \E t \in tasks : taskId.t = "number" /\ t.id = taskId.v
    THEN Reply(403, ErrorBody("Forbidden."), stmts)
    ELSE Reply(404, ErrorBody("Task not found."), stmts)

\* return res.status(404).json({ error: "Task not found." })
notFound(taskId, stmts) == Reply(404, ErrorBody("Task not found."), stmts)

\* PUT /api/tasks/:id needs both UPDATEs: a string title that passes
\* validation and a boolean completed
putBoth(body) ==
    /\ typeof(body.title) = "string"
    /\ Len(trim(body.title.v)) >= MinTitle
    /\ typeof(body.completed) = "boolean"

\* PUT /api/tasks/:id from `if (typeof completed === "boolean")` on, on table
\* T, after the title UPDATE (if any) changed c1 rows
putRest(T, auth, id, body, c1) ==
    LET taskId       == Number(id)
        owner        == auth.token.id
        hasTitle     == typeof(body.title) = "string"
        hasCompleted == typeof(body.completed) = "boolean"
        T2 == IF hasCompleted
              THEN stmtUpdateCompleted(T, StoredCompleted(body.completed.v),
                                       taskId, owner)
              ELSE T
        c2 == IF hasCompleted THEN Cardinality(Matching(T, taskId, owner)) ELSE 0
        changed == c1 + c2
        stmts == (IF hasTitle THEN <<"UpdateTitle">> ELSE <<>>)
                 \o (IF hasCompleted THEN <<"UpdateCompleted">> ELSE <<>>)
    IN  IF hasCompleted /\ ~storageUp
        THEN ServerError(stmts)
        ELSE IF changed = 0
        THEN notFound(taskId, stmts)
        ELSE [Reply(200, [kind |-> "success"], stmts) EXCEPT !.tasks = T2]

putTask_CompletedFirst(auth, id, body) ==
    IF ~Authed(auth) THEN Rejected(auth)
    ELSE
    LET taskId == Number(id)
        owner  == auth.token.id
        T0 == IF typeof(body.completed) = "boolean"
              THEN stmtUpdateCompleted(tasks, StoredCompleted(body.completed.v),
                                       taskId, owner)
              ELSE tasks
    IN  IF typeof(body.title) = "string" /\ Len(trim(body.title.v)) < MinTitle
        THEN [Reply(400, ErrorBody("Title must be at least 2 characters."),
                    <<"UpdateCompleted">>) EXCEPT !.tasks = T0]
        ELSE putRest(IF typeof(body.title) = "string"
                     THEN stmtUpdateTitle(tasks, trim(body.title.v), taskId, owner)
                     ELSE tasks,
                     auth, id, body,
                     IF typeof(body.title) = "string"
                     THEN Cardinality(Matching(tasks, taskId, owner)) ELSE 0)

\* PUT /api/tasks/:id, its statements run with nothing in between
putTask(auth, id, body) ==
    IF ~Authed(auth) THEN Rejected(auth)
    ELSE
    LET taskId       == Number(id)
        owner        == auth.token.id
        hasTitle     == typeof(body.title) = "string"
        trimmed      == trim(body.title.v)
        hasCompleted == typeof(body.completed) = "boolean"
        T1 == IF hasTitle THEN stmtUpdateTitle(tasks, trimmed, taskId, owner)
              ELSE tasks
        c1 == IF hasTitle THEN Cardinality(Matching(tasks, taskId, owner)) ELSE 0
    IN  IF hasTitle /\ Len(trimmed) < MinTitle
        THEN Reply(400, ErrorBody("Title must be at least 2 characters."), <<>>)
        ELSE IF (hasTitle \/ hasCompleted)
                /\ (~storageUp \/ (variant = "postgres" /\ taskId = NaN))
        THEN \* the first UPDATE fails: the database is down, or (postgres)
             \* invalid input syntax for type integer: "NaN"
             ServerError(<<IF hasTitle THEN "UpdateTitle" ELSE "UpdateCompleted">>)
        ELSE putRest(T1, auth, id, body, c1)

\* postgres: PUT /api/tasks/:id is in flight after its title UPDATE, at the
\* await before its completed UPDATE
putAwaits(auth, id, body) ==
    /\ variant = "postgres"
    /\ Authed(auth)
    /\ putBoth(body)
    /\ Number(id) # NaN
    /\ storageUp

\* The table after the title UPDATE of a PUT in flight
putTitleDone(auth, id, body) ==
    stmtUpdateTitle(tasks, trim(body.title.v), Number(id), auth.token.id)

\* DELETE /api/tasks/:id as variant v handles it.  A NaN id is bound as NULL
\* by better-sqlite3 and matches no row; pg sends it as the text "NaN", which
\* the server refuses as an integer, and the catch block answers 500.
deleteTaskIn(v, auth, id) ==
    IF ~Authed(auth) THEN Rejected(auth)
    ELSE
    LET taskId == Number(id)
        owner  == auth.token.id
        stmts  == <<"DeleteTask">>
    IN  IF ~storageUp \/ (v = "postgres" /\ taskId = NaN)
        THEN ServerErrorIn(v, stmts)
        ELSE IF Cardinality(Matching(tasks, taskId, owner)) = 0
        THEN notFound(taskId, stmts)
        ELSE [Reply(200, [kind |-> "success"], stmts) EXCEPT
                 !.tasks = stmtDeleteTask(tasks, taskId, owner)]

\* DELETE /api/tasks/:id
deleteTask(auth, id) == deleteTaskIn(variant, auth, id)

-----------------------------------------------------------------------------
(* Inputs *)

EmailA     == <<"a", "@", "x">>
EmailAVar  == <<" ", "A", "@", "X", " ">>
EmailB     == <<"b", "@", "x">>
NoAtEmail  == <<"a", "x">>
Pass1      == <<"p", "w", "1", "2">>
Pass2      == <<"p", "w", "3", "4", "5">>
ShortPass  == <<"p", "w", "1">>

AuthBody(e, p) == [EmptyBody EXCEPT !.email = e, !.password = p]

EmailInputs    == {Undefined, JStr(NoAtEmail), JStr(EmailA), JStr(EmailAVar),
                   JStr(EmailB)}
PasswordInputs == {Undefined, JStr(ShortPass), JStr(Pass1), JStr(Pass2)}

AuthBodies == {AuthBody(e, p) : e \in EmailInputs, p \in PasswordInputs}

\* Two users with one password each
TwoUsers == {AuthBody(JStr(EmailA), JStr(Pass1)), AuthBody(JStr(EmailB), JStr(Pass2))}
OneUser  == {AuthBody(JStr(EmailA), JStr(Pass1))}

\* The logins of that user: the email as registered and a variant of it
OneUserLogins == OneUser \cup {AuthBody(JStr(EmailAVar), JStr(Pass1))}

TitleInputs == {Undefined, JStr(<<>>), JStr(<<"a">>), JStr(<<" ", "a", " ">>),
                JStr(<<" ", " ", " ">>), JStr(<<"o", "k">>),
                JStr(<<" ", "m", "i", "l", "k", " ">>), JNum(7), JNum(42)}
CompletedInputs == {Undefined, JBool(TRUE), JBool(FALSE), JStr(<<"y", "e", "s">>)}
OwnerInputs     == {Undefined} \cup {JNum(i) : i \in 1..MaxUserSeq}

PostBodies ==
    {[EmptyBody EXCEPT !.title = t, !.owner_id = o] :
        t \in TitleInputs, o \in OwnerInputs}

PutBodies ==
    {[EmptyBody EXCEPT !.title = t, !.completed = c] :
        t \in TitleInputs, c \in CompletedInputs}

\* The :id path segments: every id handed out, one never handed out, a non-number
PathIds == {NumToString(i) : i \in 1..(MaxTaskSeq + 1)} \cup {<<"a", "b", "c">>}

\* The requests the steps of the specifications are drawn from: enough to
\* reach every store the inputs above can produce but a title "42"
StepPostBodies ==
    {[EmptyBody EXCEPT !.title = t] :
        t \in {JStr(<<"a">>), JStr(<<"o", "k">>),
               JStr(<<" ", "m", "i", "l", "k", " ">>)}}

StepPutBodies ==
    {[EmptyBody EXCEPT !.title = t, !.completed = c] :
        t \in {Undefined, JStr(<<" ", "a", " ">>), JStr(<<" ", "o", "k", " ">>)},
        c \in {Undefined, JBool(TRUE), JBool(FALSE)}}

StepPathIds == {NumToString(i) : i \in 1..MaxTaskSeq}

\* and one id never handed out
StepAbsentIds == StepPathIds \cup {NumToString(MaxTaskSeq + 1)}

OnePostBody == {[EmptyBody EXCEPT !.title = JStr(<<"o", "k">>)]}
OnePutBody  == {[EmptyBody EXCEPT !.completed = JBool(TRUE)]}

\* Two edits of one task, each with a title and a completed flag of its own
ConcurrentPutBodies ==
    {[EmptyBody EXCEPT !.title = JStr(<<"a", "a">>), !.completed = JBool(TRUE)],
     [EmptyBody EXCEPT !.title = JStr(<<"b", "b">>), !.completed = JBool(FALSE)]}

\* A token signed with a key that is not JWT_SECRET
Forged(id) ==
    [id |-> id, email |-> EmailA, iat |-> NowSeconds,
     exp |-> NowSeconds + ExpiresIn, sig |-> "attacker"]

\* Two hours, in ticks
Lifetime == ExpiresIn * TicksPerSecond

HeldHeaders == {Bearer(h.token) : h \in held}

\* Held tokens whose two hours have passed on the wall clock
ExpiredHeaders ==
    {Bearer(h.token) : h \in {k \in held : now >= k.at + Lifetime}}

BadHeaders ==
    {NoHeader, BasicHeader, Bearer(Malformed)}
    \cup {Bearer(Forged(i)) : i \in 1..userSeq}
    \cup ExpiredHeaders

Headers == BadHeaders \cup HeldHeaders

\* The instants the clock visits: around 0, around the expiry of a token
\* issued around 0, and one second after it
Instants ==
    (0..Slack)
    \cup ((Lifetime - 1)..(Lifetime + Slack))
    \cup {Lifetime + TicksPerSecond}

-----------------------------------------------------------------------------
(* Actions *)

\* useState(localStorage.getItem("token") || ""): no token
NoToken == [id |-> 0, email |-> <<>>, iat |-> 0, exp |-> 0, sig |-> "empty"]

\* TaskApp as it mounts with no token stored: nothing fetched, no error
LoggedOut ==
    /\ cToken = NoToken
    /\ cEditingId = 0
    /\ cError = ""
    /\ cNet = <<>>

Keep(issued) ==
    LET got == {[token |-> t, at |-> now] : t \in issued}
    IN  IF Cardinality(held \cup got) <= MaxHeld THEN held \cup got ELSE held

\* The handler of a request ends with outcome o
Complete(op, auth, id, body, o) ==
    /\ last' = [op |-> op, auth |-> auth, id |-> id, email |-> body.email,
                status |-> o.status]
    /\ users' = o.users
    /\ tasks' = o.tasks
    /\ userSeq' = o.userSeq
    /\ taskSeq' = o.taskSeq
    /\ held' = Keep(o.issued)
    /\ creator' = [i \in {t.id : t \in o.tasks} |->
                      IF i \in DOMAIN creator THEN creator[i] ELSE auth.token.id]

Init ==
    /\ variant \in {"sqlite", "postgres"}
    /\ storageUp = TRUE
    /\ legacy = FALSE
    /\ users = {}
    /\ tasks = {}
    /\ userSeq = 0
    /\ taskSeq = 0
    /\ now = 0
    /\ held = {}
    /\ pendingReg = <<>>
    /\ pendingPut = <<>>
    /\ last = NoLast
    /\ creator = <<>>
    /\ cTasks = <<>>
    /\ cSortBy = "newest"
    /\ cFilterStatus = "all"
    /\ cChosen = <<>>
    /\ LoggedOut

\* POST /api/auth/register arrives
Register(body) ==
    LET o == registerArrival(body)
    IN  /\ UNCHANGED <<env, now, pendingPut, client>>
        /\ registerChecks(body).status = 0 => userSeq + Len(pendingReg) < MaxUserSeq
        /\ IF o.status # 0
           THEN Complete("register", NoHeader, <<>>, body, o) /\ UNCHANGED pendingReg
           ELSE /\ Len(pendingReg) < MaxPending
                /\ pendingReg' = Append(pendingReg, body)
                /\ last' = NoLast
                /\ UNCHANGED <<store, held, creator, pendingPut>>

\* postgres: the INSERT of a register request in flight, and its response
RegisterInsert(i) ==
    LET body == pendingReg[i]
    IN  /\ Complete("register", NoHeader, <<>>, body,
                    registerInsert(EmailOf(body), PasswordOf(body)))
        /\ pendingReg' = [j \in 1..(Len(pendingReg) - 1) |->
                             IF j < i THEN pendingReg[j] ELSE pendingReg[j + 1]]
        /\ UNCHANGED <<env, now, pendingPut, client>>

Login(body) ==
    /\ Complete("login", NoHeader, <<>>, body, login(body))
    /\ UNCHANGED <<env, now, pendingReg, pendingPut, client>>

GetTasks(auth) ==
    /\ Complete("getTasks", auth, <<>>, EmptyBody, getTasks(auth))
    /\ UNCHANGED <<env, now, pendingReg, pendingPut, client>>

\* POST /api/tasks, while fewer than maxSeq task ids have been handed out
PostTask(auth, body, maxSeq) ==
    /\ taskSeq < maxSeq
    /\ Complete("postTask", auth, <<>>, EmptyBody, postTask(auth, body))
    /\ UNCHANGED <<env, now, pendingReg, pendingPut, client>>

\* PUT /api/tasks/:id arrives.  With inFlight = 0 no other request is served
\* before this one is answered, and the step is the whole handler.  Otherwise,
\* in the postgres variant with two UPDATEs to run, the step is the handler up
\* to the await of the second UPDATE, with at most inFlight such requests in
\* flight.
PutTask(auth, id, body, inFlight) ==
    IF putAwaits(auth, id, body) /\ inFlight > 0
    THEN /\ Len(pendingPut) < inFlight
         /\ tasks' = putTitleDone(auth, id, body)
         /\ pendingPut' = Append(pendingPut,
                [auth |-> auth, id |-> id, body |-> body,
                 c1 |-> Cardinality(Matching(tasks, Number(id), auth.token.id))])
         /\ last' = NoLast
         /\ UNCHANGED <<env, users, userSeq, taskSeq, now, held, creator,
                        pendingReg, client>>
    ELSE /\ Complete("putTask", auth, id, EmptyBody, putTask(auth, id, body))
         /\ UNCHANGED <<env, now, pendingReg, pendingPut, client>>

\* postgres: the completed UPDATE of a PUT in flight, and its response
PutFinish(i) ==
    LET p == pendingPut[i]
    IN  /\ Complete("putTask", p.auth, p.id, EmptyBody,
                    putRest(tasks, p.auth, p.id, p.body, p.c1))
        /\ pendingPut' = [j \in 1..(Len(pendingPut) - 1) |->
                             IF j < i THEN pendingPut[j] ELSE pendingPut[j + 1]]
        /\ UNCHANGED <<env, now, pendingReg, client>>

DeleteTask(auth, id) ==
    /\ Complete("deleteTask", auth, id, EmptyBody, deleteTask(auth, id))
    /\ UNCHANGED <<env, now, pendingReg, pendingPut, client>>

\* An administrator deletes a user from the database
DeleteUser(id) ==
    /\ \E u \in users : u.id = id
    /\ users' = deleteUser(id).users
    /\ tasks' = deleteUser(id).tasks
    /\ creator' = [i \in {t.id : t \in tasks'} |-> creator[i]]
    /\ last' = NoLast
    /\ UNCHANGED <<env, userSeq, taskSeq, now, held, pendingReg, pendingPut, client>>

\* The database stops answering, and answers again
StorageFails ==
    /\ storageUp
    /\ storageUp' = FALSE
    /\ last' = NoLast
    /\ UNCHANGED <<variant, legacy, store, now, held, creator, pendingReg,
                   pendingPut, client>>

StorageRecovers ==
    /\ ~storageUp
    /\ storageUp' = TRUE
    /\ last' = NoLast
    /\ UNCHANGED <<variant, legacy, store, now, held, creator, pendingReg,
                   pendingPut, client>>

\* Time passes
Advance(t) ==
    /\ t > now
    /\ now' = t
    /\ last' = NoLast
    /\ UNCHANGED <<env, store, held, creator, pendingReg, pendingPut, client>>

-----------------------------------------------------------------------------
(* The client: TaskApp's task list *)

\* A value of one of the form's <select> elements, kept whole
JEnum(name) == [t |-> "string", v |-> name]
JNull       == [t |-> "null"]

Priorities     == {"low", "medium", "high"}
SortOptions    == {"newest", "priority", "due_date"}
FilterOptions  == {"all", "todo", "in_progress", "done"}
ClientTitles   == {<<"a">>, <<" ", "o", "k">>}

\* t.f ?? d, for a task t of the `tasks` state
OrElse(t, f, d) == IF f \in DOMAIN t THEN t[f] ELSE d

\* priorityRank[p] ?? 2, with priorityRank = { high: 3, medium: 2, low: 1 }
priorityRank(p) ==
    CASE p = "high" -> 3 [] p = "medium" -> 2 [] p = "low" -> 1 [] OTHER -> 2

\* a.localeCompare(b) for ISO dates: digits and "-", "-" before every digit
CharOrder(c) == IF IsDigit(c) THEN DigitValue(c) + 1 ELSE 0

RECURSIVE localeCompare(_, _)
localeCompare(a, b) ==
    IF a = <<>> /\ b = <<>> THEN 0
    ELSE IF a = <<>> THEN -1
    ELSE IF b = <<>> THEN 1
    ELSE IF CharOrder(Head(a)) < CharOrder(Head(b)) THEN -1
    ELSE IF CharOrder(Head(a)) > CharOrder(Head(b)) THEN 1
    ELSE localeCompare(Tail(a), Tail(b))

compare_NewestOnly(a, b) == OrElse(b, "id", 0) - OrElse(a, "id", 0)

\* The comparator visibleTasks hands to sort()
compare(a, b) ==
    IF cSortBy = "priority"
    THEN priorityRank(OrElse(b, "priority", "medium"))
         - priorityRank(OrElse(a, "priority", "medium"))
    ELSE IF cSortBy = "due_date"
    THEN LET ad == OrElse(a, "dueDate", OrElse(a, "due_date", <<>>))
             bd == OrElse(b, "dueDate", OrElse(b, "due_date", <<>>))
         IN  IF ad = <<>> /\ bd = <<>> THEN 0
             ELSE IF ad = <<>> THEN 1
             ELSE IF bd = <<>> THEN -1
             ELSE localeCompare(ad, bd)
    ELSE OrElse(b, "id", 0) - OrElse(a, "id", 0)

\* Array.prototype.sort with the comparator: a stable sort
RECURSIVE sort(_)
sort(s) ==
    IF Len(s) <= 1 THEN s
    ELSE LET front == sort(SubSeq(s, 1, Len(s) - 1))
             x     == s[Len(s)]
             after == {k \in 1..Len(front) : compare(front[k], x) <= 0}
             p     == IF after = {} THEN 0
                      ELSE CHOOSE k \in after : \A j \in after : j <= k
         IN  SubSeq(front, 1, p) \o <<x>> \o SubSeq(front, p + 1, Len(front))

\* The filter of visibleTasks: (t.status ?? "todo") against filterStatus
shown(t) ==
    IF cFilterStatus = "all" THEN TRUE
    ELSE OrElse(t, "status", "todo") = cFilterStatus

\* visibleTasks: the tasks the list renders, in order
visibleTasks == sort(SelectSeq(cTasks, shown))

\* addTask: POST /api/tasks with the form's fields; the response is put at
\* the head of `tasks`
ClientAddTask(h, title, priority) ==
    LET trimmed == trim(title)
        body    == [EmptyBody EXCEPT !.title = JStr(trimmed),
                                     !.priority = JEnum(priority),
                                     !.status = JEnum("todo"),
                                     !.dueDate = JNull]
        o       == postTask(h, body)
        data    == [id |-> o.body.id, title |-> o.body.title,
                    completed |-> o.body.completed]
    IN  /\ Len(trimmed) >= ClientMinTitle
        /\ taskSeq < MaxClientTasks
        /\ Complete("postTask", h, <<>>, EmptyBody, o)
        /\ IF o.status \in 200..299
           THEN /\ cTasks' = <<data>> \o cTasks
                /\ cChosen' = [i \in DOMAIN cChosen \cup {data.id} |->
                                  IF i = data.id THEN priority ELSE cChosen[i]]
           ELSE UNCHANGED <<cTasks, cChosen>>
        /\ UNCHANGED <<env, now, pendingReg, pendingPut, cSortBy, cFilterStatus,
                       session>>

\* loadTasks, run when the token changes: GET /api/tasks replaces `tasks`
ClientLoadTasks(h) ==
    LET o == getTasks(h)
    IN  /\ Complete("getTasks", h, <<>>, EmptyBody, o)
        /\ cTasks' = IF o.status \in 200..299 THEN o.body.rows ELSE cTasks
        /\ UNCHANGED <<env, now, pendingReg, pendingPut, cSortBy, cFilterStatus,
                       cChosen, session>>

\* The sort <select>
ClientSetSortBy(s) ==
    /\ s # cSortBy
    /\ cSortBy' = s
    /\ UNCHANGED <<env, store, now, held, pendingReg, pendingPut, last, creator,
                   cTasks, cFilterStatus, cChosen, session>>

\* The status filter <select>
ClientSetFilterStatus(f) ==
    /\ f # cFilterStatus
    /\ cFilterStatus' = f
    /\ UNCHANGED <<env, store, now, held, pendingReg, pendingPut, last, creator,
                   cTasks, cSortBy, cChosen, session>>

\* A fetch of TaskApp: the route, the token of authHeaders() when it was
\* sent, the task id of the path, the completed flag or the title of the
\* body; then, once the server has answered, res.ok and the parsed body
Fetch(op, id, flag, text) ==
    [op |-> op, tok |-> cToken, id |-> id, flag |-> flag, text |-> text,
     served |-> FALSE, ok |-> FALSE, data |-> <<>>, err |-> ""]

Without(q, k) ==
    [j \in 1..(Len(q) - 1) |-> IF j < k THEN q[j] ELSE q[j + 1]]

EditedTitle == <<"e", "d">>

\* submitAuth in login mode, and the effect on [token] it triggers: on
\* success the token is kept and loadTasks sends GET /api/tasks with it
ClientSubmitAuth(body) ==
    LET o == login(body)
    IN  /\ cToken = NoToken
        /\ Len(cNet) < MaxNet
        /\ Complete("login", NoHeader, <<>>, body, o)
        /\ IF o.status \in 200..299
           THEN /\ cToken' = o.body.token
                /\ cError' = ""
                /\ cNet' = Append(cNet, [Fetch("load", 0, FALSE, <<>>)
                                            EXCEPT !.tok = o.body.token])
           ELSE /\ cError' = o.body.error
                /\ UNCHANGED <<cToken, cNet>>
        /\ UNCHANGED <<env, now, pendingReg, pendingPut, cTasks, cSortBy,
                       cFilterStatus, cChosen, cEditingId>>

\* logout: the fetches under way are left to resolve
ClientLogout ==
    /\ cToken # NoToken
    /\ cToken' = NoToken
    /\ cTasks' = <<>>
    /\ cEditingId' = 0
    /\ cError' = ""
    /\ UNCHANGED <<env, store, now, held, pendingReg, pendingPut, last, creator,
                   cSortBy, cFilterStatus, cChosen, cNet>>

\* A handler of the task screen up to its await of fetch()
ClientSend(req) ==
    /\ cToken # NoToken
    /\ Len(cNet) < MaxNet
    /\ cError' = ""
    /\ cNet' = Append(cNet, req)
    /\ UNCHANGED <<env, store, now, held, pendingReg, pendingPut, last, creator,
                   cTasks, cSortBy, cFilterStatus, cChosen, cToken, cEditingId>>

\* addTask, while fewer than maxSeq tasks were made or are being made
ClientAddStart(title, maxSeq) ==
    /\ Len(trim(title)) >= ClientMinTitle
    /\ taskSeq + Cardinality({k \in DOMAIN cNet : cNet[k].op = "add"
                                                   /\ ~cNet[k].served}) < maxSeq
    /\ ClientSend(Fetch("add", 0, FALSE, trim(title)))

\* toggleCompleted(task) for the task rendered at position i
ClientToggleStart(i) ==
    ClientSend(Fetch("toggle", cTasks[i].id, ~cTasks[i].completed, <<>>))

\* deleteTask(id) for the task rendered at position i
ClientDeleteStart(i) ==
    ClientSend(Fetch("delete", cTasks[i].id, FALSE, <<>>))

\* startEdit(task) for the task rendered at position i
ClientStartEdit(i) ==
    /\ cToken # NoToken
    /\ cEditingId # cTasks[i].id
    /\ cEditingId' = cTasks[i].id
    /\ UNCHANGED <<env, store, now, held, pendingReg, pendingPut, last, creator,
                   cTasks, cSortBy, cFilterStatus, cChosen, cToken, cError, cNet>>

\* saveEdit(editingId) with a valid title typed
ClientSaveStart ==
    /\ cEditingId # 0
    /\ ClientSend(Fetch("save", cEditingId, FALSE, EditedTitle))

\* What the server answers fetch req
served(req) ==
    LET h  == Bearer(req.tok)
        id == NumToString(req.id)
    IN  CASE req.op = "load"   -> getTasks(h)
          [] req.op = "add"    ->
                postTask(h, [EmptyBody EXCEPT !.title = JStr(req.text),
                                              !.priority = JEnum("medium"),
                                              !.status = JEnum("todo"),
                                              !.dueDate = JNull])
          [] req.op = "toggle" ->
                putTask(h, id, [EmptyBody EXCEPT !.completed = JBool(req.flag)])
          [] req.op = "save"   ->
                putTask(h, id, [EmptyBody EXCEPT !.title = JStr(req.text)])
          [] OTHER             -> deleteTask(h, id)

\* The server handles the fetch at position k and answers it
ClientServe(k) ==
    LET req == cNet[k]
        o   == served(req)
        ok  == o.status \in 200..299
    IN  /\ ~req.served
        /\ Complete(req.op, Bearer(req.tok), NumToString(req.id), EmptyBody, o)
        /\ cNet' = [cNet EXCEPT ![k] =
                       [@ EXCEPT !.served = TRUE,
                                 !.ok = ok,
                                 !.data = IF ok /\ req.op = "load" THEN o.body.rows
                                          ELSE IF ok /\ req.op = "add"
                                          THEN <<[id |-> o.body.id,
                                                  title |-> o.body.title,
                                                  completed |-> o.body.completed]>>
                                          ELSE <<>>,
                                 !.err = IF ok THEN "" ELSE o.body.error]]
        /\ UNCHANGED <<env, now, pendingReg, pendingPut, cTasks, cSortBy,
                       cFilterStatus, cChosen, cToken, cEditingId, cError>>

\* `tasks` after the handler's code that follows its awaits
resolved(req) ==
    CASE req.op = "load"   -> req.data
      [] req.op = "add"    -> req.data \o cTasks
      [] req.op = "toggle" ->
            [i \in DOMAIN cTasks |->
                IF cTasks[i].id = req.id
                THEN [cTasks[i] EXCEPT !.completed = ~@] ELSE cTasks[i]]
      [] req.op = "save"   ->
            [i \in DOMAIN cTasks |->
                IF cTasks[i].id = req.id
                THEN [cTasks[i] EXCEPT !.title = req.text] ELSE cTasks[i]]
      [] OTHER             -> SelectSeq(cTasks, LAMBDA t : t.id # req.id)

\* The response to the fetch at position k arrives: the rest of its handler
ClientResolve(k) ==
    LET req == cNet[k]
    IN  /\ req.served
        /\ cNet' = Without(cNet, k)
        /\ IF req.ok
           THEN /\ cTasks' = resolved(req)
                /\ cEditingId' = IF req.op = "save" THEN 0 ELSE cEditingId
                /\ UNCHANGED cError
           ELSE /\ cError' = req.err
                /\ UNCHANGED <<cTasks, cEditingId>>
        /\ UNCHANGED <<env, store, now, held, pendingReg, pendingPut, last,
                       creator, cSortBy, cFilterStatus, cChosen, cToken>>

-----------------------------------------------------------------------------
(* Specifications *)

\* The task routes, for two users whose task requests are served one at a time
Next ==
    \/ \E b \in TwoUsers : Register(b)
    \/ \E i \in DOMAIN pendingReg : RegisterInsert(i)
    \/ \E b \in TwoUsers : Login(b)
    \/ \E h \in HeldHeaders : GetTasks(h)
    \/ \E h \in HeldHeaders, b \in StepPostBodies : PostTask(h, b, MaxTaskSeq)
    \/ \E h \in HeldHeaders, i \in StepPathIds, b \in StepPutBodies :
          PutTask(h, i, b, 0)
    \/ \E h \in HeldHeaders, i \in StepAbsentIds : DeleteTask(h, i)

Spec == Init /\ [][Next]_vars

\* Registration and login, for every email and password
NextAuth ==
    \/ \E b \in AuthBodies : Register(b)
    \/ \E i \in DOMAIN pendingReg : RegisterInsert(i)
    \/ \E b \in AuthBodies : Login(b)
    \/ \E h \in Headers : GetTasks(h)

SpecAuth == Init /\ [][NextAuth]_vars

\* Tokens over time, for one user
NextClock ==
    \/ \E t \in Instants : Advance(t)
    \/ \E b \in OneUser : Register(b)
    \/ \E i \in DOMAIN pendingReg : RegisterInsert(i)
    \/ \E b \in OneUserLogins : Login(b)
    \/ \E h \in Headers : GetTasks(h)
    \/ \E h \in HeldHeaders, b \in OnePostBody : PostTask(h, b, MaxTaskSeq)
    \/ \E h \in ExpiredHeaders, i \in StepPathIds, b \in OnePutBody :
          PutTask(h, i, b, 0)
    \/ \E h \in ExpiredHeaders, i \in StepPathIds : DeleteTask(h, i)

SpecClock == Init /\ [][NextClock]_vars

\* Several tasks of two users stored together
ListPathIds == {NumToString(i) : i \in 1..MaxListSeq}

NextList ==
    \/ \E b \in TwoUsers : Register(b)
    \/ \E i \in DOMAIN pendingReg : RegisterInsert(i)
    \/ \E h \in HeldHeaders : GetTasks(h)
    \/ \E h \in HeldHeaders, b \in OnePostBody : PostTask(h, b, MaxListSeq)
    \/ \E h \in HeldHeaders, i \in ListPathIds, b \in OnePutBody :
          PutTask(h, i, b, 0)
    \/ \E h \in HeldHeaders, i \in ListPathIds : DeleteTask(h, i)

SpecList == Init /\ [][NextList]_vars

\* The routes of one user while the database fails and recovers
NextFail ==
    \/ StorageFails
    \/ StorageRecovers
    \/ \E b \in OneUser : Register(b)
    \/ \E i \in DOMAIN pendingReg : RegisterInsert(i)
    \/ \E b \in OneUser : Login(b)
    \/ \E h \in HeldHeaders : GetTasks(h)
    \/ \E h \in HeldHeaders, b \in OnePostBody : PostTask(h, b, MaxTaskSeq)
    \/ \E h \in HeldHeaders, i \in StepPathIds, b \in OnePutBody :
          PutTask(h, i, b, 0)
    \/ \E h \in HeldHeaders, i \in StepPathIds : DeleteTask(h, i)

SpecFail == Init /\ [][NextFail]_vars

\* The path segments of the tasks stored now
StoredPathIds == {NumToString(t.id) : t \in tasks}

\* One user's edits of a stored task, several in flight at a time
NextPut ==
    \/ \E b \in OneUser : Register(b)
    \/ \E i \in DOMAIN pendingReg : RegisterInsert(i)
    \/ \E h \in HeldHeaders, b \in OnePostBody : PostTask(h, b, MaxTaskSeq)
    \/ \E h \in HeldHeaders, i \in StoredPathIds, b \in ConcurrentPutBodies :
          PutTask(h, i, b, MaxPendingPut)
    \/ \E i \in DOMAIN pendingPut : PutFinish(i)

SpecPut == Init /\ [][NextPut]_vars

\* One user's edit of a stored task, one PUT in flight at a time, while the
\* same user lists and deletes
NextAtomic ==
    \/ \E b \in OneUser : Register(b)
    \/ \E i \in DOMAIN pendingReg : RegisterInsert(i)
    \/ \E h \in HeldHeaders, b \in OnePostBody : PostTask(h, b, MaxTaskSeq)
    \/ \E h \in HeldHeaders, i \in StoredPathIds, b \in ConcurrentPutBodies :
          PutTask(h, i, b, 1)
    \/ \E i \in DOMAIN pendingPut : PutFinish(i)
    \/ \E h \in HeldHeaders : GetTasks(h)
    \/ \E h \in HeldHeaders, i \in StoredPathIds : DeleteTask(h, i)

SpecAtomic == Init /\ [][NextAtomic]_vars

\* The row of a tasks table that predates owner_id, after ALTER TABLE
LegacyTask ==
    [id |-> 1, owner_id |-> 0, title |-> <<"o", "l", "d">>, completed |-> 0]

\* The server starts on a new database, or (sqlite) on a database file whose
\* tasks table an earlier version made without completed and owner_id
InitAdmin ==
    /\ variant \in {"sqlite", "postgres"}
    /\ storageUp = TRUE
    /\ legacy \in (IF variant = "sqlite" THEN BOOLEAN ELSE {FALSE})
    /\ users = {}
    /\ tasks = (IF legacy THEN {LegacyTask} ELSE {})
    /\ userSeq = 0
    /\ taskSeq = (IF legacy THEN 1 ELSE 0)
    /\ now = 0
    /\ held = {}
    /\ pendingReg = <<>>
    /\ pendingPut = <<>>
    /\ last = NoLast
    /\ creator = [i \in {t.id : t \in tasks} |-> 0]
    /\ cTasks = <<>>
    /\ cSortBy = "newest"
    /\ cFilterStatus = "all"
    /\ cChosen = <<>>
    /\ LoggedOut

\* Two users and their tasks while an administrator deletes users
NextAdmin ==
    \/ \E b \in TwoUsers : Register(b)
    \/ \E i \in DOMAIN pendingReg : RegisterInsert(i)
    \/ \E h \in HeldHeaders : GetTasks(h)
    \/ \E h \in HeldHeaders, b \in OnePostBody : PostTask(h, b, MaxListSeq)
    \/ \E h \in HeldHeaders, i \in ListPathIds : DeleteTask(h, i)
    \/ \E id \in 1..MaxUserSeq : DeleteUser(id)

SpecAdmin == InitAdmin /\ [][NextAdmin]_vars

\* The same on a database this code created
SpecIds == Init /\ [][NextAdmin]_vars

\* The shapes a task of the `tasks` state can have: with or without a due
\* date (an ISO date string), with or without a status
DueDates == {<<"2", "0", "2", "4", "-", "0", "1", "-", "0", "9">>,
             <<"2", "0", "2", "4", "-", "0", "1", "-", "1", "0">>}

TaskShapes(id) ==
    LET base == [id |-> id, title |-> <<"o", "k">>, completed |-> FALSE]
        dated == {base} \cup {[id |-> id, title |-> <<"o", "k">>,
                               completed |-> FALSE, dueDate |-> d] : d \in DueDates}
    IN  dated \cup {[f \in DOMAIN t \cup {"status"} |->
                        IF f = "status" THEN "done" ELSE t[f]] : t \in dated}

\* Every list of at most MaxSortTasks tasks with ids of their own
TaskLists ==
    UNION {{l \in [1..n -> UNION {TaskShapes(i) : i \in 1..MaxSortTasks}] :
               \A i, j \in 1..n : i # j => l[i].id # l[j].id}
           : n \in 0..MaxSortTasks}

\* The list view over any `tasks` state
InitSort ==
    /\ variant \in {"sqlite", "postgres"}
    /\ storageUp = TRUE
    /\ legacy = FALSE
    /\ users = {}
    /\ tasks = {}
    /\ userSeq = 0
    /\ taskSeq = 0
    /\ now = 0
    /\ held = {}
    /\ pendingReg = <<>>
    /\ pendingPut = <<>>
    /\ last = NoLast
    /\ creator = <<>>
    /\ cTasks \in TaskLists
    /\ cSortBy = "newest"
    /\ cFilterStatus = "all"
    /\ cChosen = <<>>
    /\ LoggedOut

NextSort ==
    \/ \E s \in SortOptions : ClientSetSortBy(s)
    \/ \E f \in FilterOptions : ClientSetFilterStatus(f)

SpecSort == InitSort /\ [][NextSort]_vars

\* The users row INSERT INTO users makes of a register body
StoredUser(id, body) ==
    [id |-> id, email |-> EmailOf(body),
     password_hash |-> hashSync(PasswordOf(body))]

UserA == StoredUser(1, AuthBody(JStr(EmailA), JStr(Pass1)))
UserB == StoredUser(2, AuthBody(JStr(EmailB), JStr(Pass2)))

\* The server with the given users registered and no task, the client as
\* TaskApp with token tok and its list loaded
InitWith(registered, tok) ==
    /\ variant \in {"sqlite", "postgres"}
    /\ storageUp = TRUE
    /\ legacy = FALSE
    /\ users = registered
    /\ tasks = {}
    /\ userSeq = Cardinality(registered)
    /\ taskSeq = 0
    /\ now = 0
    /\ held = {}
    /\ pendingReg = <<>>
    /\ pendingPut = <<>>
    /\ last = NoLast
    /\ creator = <<>>
    /\ cTasks = <<>>
    /\ cSortBy = "newest"
    /\ cFilterStatus = "all"
    /\ cChosen = <<>>
    /\ cToken = tok
    /\ cEditingId = 0
    /\ cError = ""
    /\ cNet = <<>>

\* One user logged in, adding tasks and toggling them
InitToggle == InitWith({UserA}, createToken(UserA))

NextToggle ==
    \/ \E t \in ClientTitles : ClientAddStart(t, MaxTaskSeq)
    \/ \E i \in DOMAIN cTasks : ClientToggleStart(i)
    \/ \E k \in DOMAIN cNet : ClientServe(k)
    \/ \E k \in DOMAIN cNet : ClientResolve(k)

SpecToggle == InitToggle /\ [][NextToggle]_vars

\* Two registered users taking turns in one client
InitSession == InitWith({UserA, UserB}, NoToken)

NextSession ==
    \/ \E b \in TwoUsers : ClientSubmitAuth(b)
    \/ ClientLogout
    \/ \E t \in ClientTitles : ClientAddStart(t, MaxTaskSeq)
    \/ \E i \in DOMAIN cTasks : ClientToggleStart(i)
    \/ \E i \in DOMAIN cTasks : ClientDeleteStart(i)
    \/ \E i \in DOMAIN cTasks : ClientStartEdit(i)
    \/ ClientSaveStart
    \/ \E k \in DOMAIN cNet : ClientServe(k)
    \/ \E k \in DOMAIN cNet : ClientResolve(k)

SpecSession == InitSession /\ [][NextSession]_vars

\* One registered user logging in and out of the client over two hours, each
\* login made once the list of the login before has arrived
InitTokens == InitWith({UserA}, NoToken)

NextTokens ==
    \/ \E t \in Instants : Advance(t)
    \/ \E b \in OneUser : cNet = <<>> /\ ClientSubmitAuth(b)
    \/ ClientLogout
    \/ \E k \in DOMAIN cNet : ClientServe(k)
    \/ \E k \in DOMAIN cNet : ClientResolve(k)
    \/ \E h \in HeldHeaders, b \in OnePostBody : PostTask(h, b, MaxTaskSeq)
    \/ \E h \in HeldHeaders, i \in StoredPathIds : DeleteTask(h, i)

SpecTokens == InitTokens /\ [][NextTokens]_vars

\* The client of one user
NextClient ==
    \/ \E b \in OneUser : Register(b)
    \/ \E i \in DOMAIN pendingReg : RegisterInsert(i)
    \/ \E b \in OneUser : Login(b)
    \/ \E h \in HeldHeaders, t \in ClientTitles, p \in Priorities :
          ClientAddTask(h, t, p)
    \/ \E h \in HeldHeaders : ClientLoadTasks(h)
    \/ \E s \in SortOptions : ClientSetSortBy(s)
    \/ \E f \in FilterOptions : ClientSetFilterStatus(f)

SpecClient == Init /\ [][NextClient]_vars

-----------------------------------------------------------------------------
(* Row-level isolation *)

\* The user a verified header authenticates: req.user.id
Caller(auth) == auth.token.id

Rows(auth) == getTasks(auth).body.rows

\* PUT bodies the handler answers 400: a string title shorter than MinTitle
ShortTitle(body) ==
    typeof(body.title) = "string" /\ Len(trim(body.title.v)) < MinTitle

\* The status C1 gives update and delete of another user's task
Isolated(expected(_)) ==
    \A a \in HeldHeaders : Authed(a) =>
        /\ \A i \in 1..Len(Rows(a)) : creator[Rows(a)[i].id] = Caller(a)
        /\ \A t \in tasks : creator[t.id] # Caller(a) =>
              /\ \A b \in PutBodies :
                    LET o == putTask(a, NumToString(t.id), b)
                    IN  o.status = expected(b) /\ o.tasks = tasks
              /\ LET o == deleteTask(a, NumToString(t.id))
                 IN  o.status = 404 /\ o.tasks = tasks

Always404(b) == 404
NotFoundOr400(b) == IF ShortTitle(b) THEN 400 ELSE 404

(* C1, as stated: with B's valid token, GET /api/tasks returns no task created
   with A's token, and PUT and DELETE on the id of a task created with A's
   token return 404 and leave the task table unchanged. *)
C1_IsolationAlways404 == Isolated(Always404)

(* C1, amended: as above, but a PUT whose body carries a string title shorter
   than 2 characters after trimming is answered 400 (validation precedes the
   UPDATE); A's task is unchanged in every case. *)
C1_Isolation == Isolated(NotFoundOr400)

\* B's PUT or DELETE on the id of a task created by A was answered 404
C1_Witness ==
    /\ last.op \in {"putTask", "deleteTask"}
    /\ last.status = 404
    /\ Authed(last.auth)
    /\ \E t \in tasks : NumToString(t.id) = last.id /\ creator[t.id] # Caller(last.auth)

-----------------------------------------------------------------------------
(* Authentication of the task routes *)

\* The handler neither read nor wrote the store and issued nothing
Untouched(o) ==
    /\ o.stmts = <<>>
    /\ o.users = users /\ o.tasks = tasks
    /\ o.userSeq = userSeq /\ o.taskSeq = taskSeq
    /\ o.issued = {}

TaskRouteOutcomes(a) ==
    {getTasks(a)}
    \cup {postTask(a, b) : b \in PostBodies}
    \cup {putTask(a, i, b) : i \in PathIds, b \in PutBodies}
    \cup {deleteTask(a, i) : i \in PathIds}

(* C2: every task route called without an Authorization header, with a header
   of another scheme, with a malformed token, with a token signed by another
   key or with an expired token answers 401, executes no storage statement
   (so the route's handler did not run) and leaves the store as it was. *)
C2_TaskRoutesRequireAuth ==
    \A a \in BadHeaders : \A o \in TaskRouteOutcomes(a) :
        o.status = 401 /\ Untouched(o)

\* A task route was called with an expired token, while tasks exist, and
\* answered 401
C2_Witness ==
    /\ last.op \in {"getTasks", "postTask", "putTask", "deleteTask"}
    /\ last.status = 401
    /\ last.auth \in ExpiredHeaders
    /\ tasks # {}

-----------------------------------------------------------------------------
(* Ownership *)

PutBodiesWithOwner ==
    {[b EXCEPT !.owner_id = o] : b \in StepPutBodies, o \in OwnerInputs}

(* C3: every stored task has one owner, the user whose token authenticated the
   POST /api/tasks that created it; whatever owner_id a POST body names, the
   inserted row is owned by the caller; and no PUT, whatever its path id and
   body, changes the owner_id of any task. *)
C3_OwnerIsCreator ==
    /\ \A t \in tasks : t.owner_id = creator[t.id]
    /\ \A t1, t2 \in tasks : t1.id = t2.id => t1 = t2
    /\ \A a \in HeldHeaders : Authed(a) =>
          /\ \A b \in PostBodies :
                \A t \in postTask(a, b).tasks \ tasks : t.owner_id = Caller(a)
          /\ \A i \in PathIds, b \in PutBodiesWithOwner :
                \A t \in putTask(a, i, b).tasks :
                    \E t0 \in tasks : t0.id = t.id /\ t0.owner_id = t.owner_id

\* With two users registered, a POST was answered 201 and its row is owned by
\* the caller
C3_Witness ==
    /\ last.op = "postTask"
    /\ last.status = 201
    /\ Cardinality(users) = 2
    /\ \E t \in tasks : t.id = taskSeq /\ t.owner_id = Caller(last.auth)

-----------------------------------------------------------------------------
(* Registration and login *)

\* An email as the claims normalise it: trimmed and lower-cased
Normalize(e) == toLowerCase(trim(e))

\* The body carries the email of a stored user, up to case and surrounding
\* whitespace
NamesUser(body, u) ==
    typeof(body.email) = "string" /\ Normalize(body.email.v) = Normalize(u.email)

ValidPassword(body) ==
    typeof(body.password) = "string" /\ Len(body.password.v) >= MinPassword

(* C4: once an email is registered, a register request arriving later whose
   email equals it after trimming and lower-casing, with any password that
   passes validation, is answered 409 and creates no user record. *)
C4_DuplicateEmailConflict ==
    \A b \in AuthBodies :
        (ValidPassword(b) /\ \E u \in users : NamesUser(b, u)) =>
            LET o == registerArrival(b)
            IN  /\ o.status = 409
                /\ o.users = users /\ o.userSeq = userSeq /\ o.issued = {}

\* A registration of " A@X " was answered 409 because a@x is registered
C4_Witness ==
    /\ last.op = "register"
    /\ last.status = 409
    /\ last.email = JStr(EmailAVar)
    /\ \E u \in users : u.email = EmailA

(* C5: in every reachable state, also after register requests whose SELECTs
   both ran before either INSERT, no two user records have the same stored
   email, and every stored email is trimmed and lower-cased. *)
C5_EmailUnique ==
    /\ \A u1, u2 \in users : u1.email = u2.email => u1 = u2
    /\ \A u \in users : u.email = Normalize(u.email)

\* postgres: of two registrations of one email in flight together, the second
\* INSERT was refused
C5_Witness ==
    /\ variant = "postgres"
    /\ last.op = "register"
    /\ last.status = 500
    /\ \E u \in users : typeof(last.email) = "string" /\ u.email = Normalize(last.email.v)

(* C6: in every state of the credential store, a login with a registered email
   and a wrong password and a login with an unregistered email are answered
   with the same status, 401, and the same body. *)
C6_LoginIndistinguishable ==
    \A b1, b2 \in AuthBodies :
        (/\ \E u \in users : NamesUser(b1, u) /\ u.password_hash.of # PasswordOf(b1)
         /\ ~\E u \in users : NamesUser(b2, u))
        => /\ login(b1).status = 401
           /\ login(b2).status = 401
           /\ login(b1).body = login(b2).body

\* A login with a registered email and a wrong password was answered 401
C6_Witness ==
    /\ last.op = "login"
    /\ last.status = 401
    /\ \E u \in users : /\ typeof(last.email) = "string"
                        /\ u.email = Normalize(last.email.v)

-----------------------------------------------------------------------------
(* The task round trip and title validation *)

\* What GET /api/tasks gives the caller of auth when the table holds T
ListOf(T, auth) == listRows(T, Caller(auth))

RowsWithId(rows, id) == {rows[i] : i \in {j \in 1..Len(rows) : rows[j].id = id}}

CompletedTrue == [EmptyBody EXCEPT !.completed = JBool(TRUE)]

\* Create with a valid title: listed once, completed = false, title trimmed
RoundTripCreate(a) ==
    \A b \in PostBodies :
        (typeof(b.title) = "string" /\ Len(trim(b.title.v)) >= MinTitle) =>
            LET o == postTask(a, b)
            IN  /\ o.status = 201
                /\ RowsWithId(ListOf(o.tasks, a), o.body.id)
                     = {[id |-> o.body.id, title |-> trim(b.title.v),
                         completed |-> FALSE]}

\* Update {completed: true} of an own task: listed completed = true, title kept
RoundTripUpdate(a) ==
    \A t \in tasks : creator[t.id] = Caller(a) =>
        LET o == putTask(a, NumToString(t.id), CompletedTrue)
        IN  /\ o.status = 200
            /\ RowsWithId(ListOf(o.tasks, a), t.id)
                 = {[id |-> t.id, title |-> t.title, completed |-> TRUE]}

\* Delete of an own task: no longer listed
RoundTripDelete(a) ==
    \A t \in tasks : creator[t.id] = Caller(a) =>
        LET o == deleteTask(a, NumToString(t.id))
        IN  /\ o.status = 200
            /\ RowsWithId(ListOf(o.tasks, a), t.id) = {}

\* An id handed out and no longer stored is the id of a deleted task
Deleted(i) == i \in 1..taskSeq /\ ~\E t \in tasks : t.id = i

\* A further update or delete on the id of a deleted task
RoundTripGone(a, expected(_)) ==
    \A i \in 1..taskSeq : Deleted(i) =>
        /\ \A b \in PutBodies :
              LET o == putTask(a, NumToString(i), b)
              IN  o.status = expected(b) /\ o.tasks = tasks
        /\ LET o == deleteTask(a, NumToString(i))
           IN  o.status = 404 /\ o.tasks = tasks

RoundTrip(expected(_)) ==
    \A a \in HeldHeaders : Authed(a) =>
        /\ RoundTripCreate(a)
        /\ RoundTripUpdate(a)
        /\ RoundTripDelete(a)
        /\ RoundTripGone(a, expected)

(* C7 as stated: create, list, update {completed: true}, list, delete, list
   behave as a round trip, and every further update or delete on the deleted
   id is answered 404. *)
C7_RoundTripAlways404 == RoundTrip(Always404)

(* C7, amended: the same round trip, where a further update on the deleted id
   is answered 404 unless its body carries a string title shorter than 2
   characters after trimming, which is answered 400. *)
C7_RoundTrip == RoundTrip(NotFoundOr400)

\* An update or delete on the id of a deleted task was answered 404
C7_Witness ==
    /\ last.op \in {"putTask", "deleteTask"}
    /\ last.status = 404
    /\ Authed(last.auth)
    /\ \E i \in 1..taskSeq : Deleted(i) /\ NumToString(i) = last.id

\* The text of a title that is a string or missing
TitleText(body) == IF typeof(body.title) = "string" THEN body.title.v ELSE <<>>

(* C8: POST /api/tasks by an authenticated caller with a title (a string, or
   missing) whose trimmed length is less than 2 is answered 400 and stores no
   task; with a trimmed length of 2 or more it is answered 201 and stores
   exactly one new task, whose title is the trimmed title. *)
C8_TitleValidation ==
    \A a \in HeldHeaders : Authed(a) =>
        \A b \in PostBodies : typeof(b.title) \in {"string", "undefined"} =>
            LET o == postTask(a, b)
            IN  IF Len(trim(TitleText(b))) < MinTitle
                THEN /\ o.status = 400
                     /\ o.tasks = tasks /\ o.taskSeq = taskSeq
                ELSE /\ o.status = 201
                     /\ tasks \subseteq o.tasks
                     /\ Cardinality(o.tasks \ tasks) = 1
                     /\ \A t \in o.tasks \ tasks : t.title = trim(TitleText(b))

\* A POST with a too-short title was answered 400 and the table is still empty
C8_Witness ==
    /\ last.op = "postTask"
    /\ last.status = 400
    /\ Authed(last.auth)
    /\ tasks = {} /\ taskSeq = 0

-----------------------------------------------------------------------------
(* Token expiry *)

\* requireAuth lets a request with the held token through / answers it 401
Accepted(h) == getTasks(Bearer(h.token)).status = 200
Refused(h)  == getTasks(Bearer(h.token)).status = 401

(* C9 as stated: whatever requests were made, a token issued at time T by
   register or login is accepted at every time before T + 2h and refused
   with 401 at every time later than T + 2h. *)
C9_ExpiryExact ==
    \A h \in held :
        /\ now < h.at + Lifetime => Accepted(h)
        /\ now > h.at + Lifetime => Refused(h)

(* C9, amended: whatever requests were made, a token issued at time T is
   accepted at every time up to T + 2h - 1s and refused with 401 at every
   time from T + 2h on; in the second before T + 2h it is refused once the
   clock's whole second reaches the whole second of T plus 7200. *)
C9_ExpiryToTheSecond ==
    \A h \in held :
        /\ now <= h.at + Lifetime - TicksPerSecond => Accepted(h)
        /\ now >= h.at + Lifetime => Refused(h)
        /\ (Accepted(h) <=> NowSeconds < (h.at \div TicksPerSecond) + ExpiresIn)

\* A token was refused one second after its two hours
C9_Witness ==
    /\ last.op = "getTasks"
    /\ last.status = 401
    /\ \E h \in held : /\ last.auth = Bearer(h.token)
                       /\ now = h.at + Lifetime + TicksPerSecond

-----------------------------------------------------------------------------
(* Sorting by priority *)

\* The priority the user gave the task in row t
ChosenRank(t) == priorityRank(cChosen[t.id])

(* C10: with sortBy = priority the listed tasks are in the order high,
   medium, low of the priorities they were given, whether the list was
   loaded from the server or built by adding tasks. *)
C10_PriorityOrder ==
    cSortBy = "priority" =>
        \A i, j \in 1..Len(visibleTasks) :
            i < j => ChosenRank(visibleTasks[i]) >= ChosenRank(visibleTasks[j])

-----------------------------------------------------------------------------
(* Absence and foreign ownership *)

\* The numeric ids of requests: those handed out and one never handed out
NumericIds == 1..(MaxTaskSeq + 1)

\* No task has id i: it was deleted or never handed out
Absent(i) == ~\E t \in tasks : t.id = i

\* Status and body of a response
Answer(o) == <<o.status, o.body>>

\* For one caller and one body, PUT and DELETE answer the same on an absent id
\* and on the id of another user's task
Indistinguishable(expected(_)) ==
    \A a \in HeldHeaders : Authed(a) =>
        \A t \in tasks : creator[t.id] # Caller(a) =>
            \A i \in NumericIds : Absent(i) =>
                /\ \A b \in PutBodies :
                      LET absent  == putTask(a, NumToString(i), b)
                          foreign == putTask(a, NumToString(t.id), b)
                      IN  /\ Answer(absent) = Answer(foreign)
                          /\ absent.status = expected(b)
                /\ LET absent  == deleteTask(a, NumToString(i))
                       foreign == deleteTask(a, NumToString(t.id))
                   IN  /\ Answer(absent) = Answer(foreign)
                       /\ absent.status = 404

(* C11 as stated: in both variants, for the same caller and body, PUT and
   DELETE on an absent id and on the id of another user's task give the same
   body and the same status, which is 404. *)
C11_SameAnswerAlways404 == Indistinguishable(Always404)

(* C11, amended: in both variants, for the same caller and body, PUT and
   DELETE on an absent id and on the id of another user's task give the same
   status and the same body: 404, or for a PUT whose body carries a string
   title shorter than 2 characters after trimming, 400. *)
C11_SameAnswer == Indistinguishable(NotFoundOr400)

\* While another user's task is stored, an update or delete of an absent id
\* was answered 404
C11_Witness ==
    /\ last.op \in {"putTask", "deleteTask"}
    /\ last.status = 404
    /\ Authed(last.auth)
    /\ \E t \in tasks : creator[t.id] # Caller(last.auth)
    /\ \E i \in NumericIds : Absent(i) /\ NumToString(i) = last.id

-----------------------------------------------------------------------------
(* Frame and effect of update *)

\* The completed flag of a stored task, as a boolean
CompletedOf(t) == IF variant = "sqlite" THEN t.completed # 0 ELSE t.completed

HasTitle(body)     == typeof(body.title) = "string"
HasCompleted(body) == typeof(body.completed) = "boolean"

\* Table T2 is table T with task t replaced by t2
Replaces(T2, t2, T, t) == t2 \in T2 /\ T2 \ {t2} = T \ {t}

(* C12: a PUT by the owner with a valid title only changes the title and keeps
   completed; with a boolean completed only it changes completed and keeps the
   title; with both it changes both; the id and owner of the task, every other
   task and every user are unchanged. *)
C12_FieldsIndependent ==
    \A a \in HeldHeaders : Authed(a) =>
        \A t \in tasks : creator[t.id] = Caller(a) =>
            \A b \in PutBodies :
                (~ShortTitle(b) /\ (HasTitle(b) \/ HasCompleted(b))) =>
                    LET o == putTask(a, NumToString(t.id), b)
                    IN  /\ o.status = 200
                        /\ o.users = users
                        /\ \E t2 \in o.tasks :
                              /\ Replaces(o.tasks, t2, tasks, t)
                              /\ t2.id = t.id /\ t2.owner_id = t.owner_id
                              /\ t2.title = IF HasTitle(b) THEN trim(b.title.v)
                                            ELSE t.title
                              /\ CompletedOf(t2) = IF HasCompleted(b)
                                                   THEN b.completed.v
                                                   ELSE CompletedOf(t)

\* The owner's update was answered 200 and the task is completed
C12_Witness ==
    /\ last.op = "putTask"
    /\ last.status = 200
    /\ \E t \in tasks : /\ NumToString(t.id) = last.id
                        /\ creator[t.id] = Caller(last.auth)
                        /\ CompletedOf(t)
                        /\ tasks \ {t} # {}

-----------------------------------------------------------------------------
(* Validation errors *)

\* The outcomes of every register, create and update request an authenticated
\* or anonymous client can send in the current state
ValidatedOutcomes ==
    {registerArrival(b) : b \in AuthBodies}
    \cup UNION {{postTask(a, b) : b \in PostBodies}
                \cup {putTask(a, i, b) : i \in PathIds, b \in PutBodies}
                : a \in {h \in HeldHeaders : Authed(h)}}

(* C13: every register, create or update request answered 400 ran no storage
   statement and leaves users, tasks and both id sequences as they were; and
   an update of an own task with a too-short title is answered 400 also when
   its body carries a boolean completed. *)
C13_ValidationAtomic ==
    /\ \A o \in ValidatedOutcomes : o.status = 400 => Untouched(o)
    /\ \A a \in HeldHeaders : Authed(a) =>
          \A t \in tasks : creator[t.id] = Caller(a) =>
              \A b \in PutBodies : (ShortTitle(b) /\ HasCompleted(b)) =>
                  LET o == putTask(a, NumToString(t.id), b)
                  IN  o.status = 400 /\ Untouched(o)

\* An update of an own task was answered 400
C13_Witness ==
    /\ last.op = "putTask"
    /\ last.status = 400
    /\ \E t \in tasks : /\ NumToString(t.id) = last.id
                        /\ creator[t.id] = Caller(last.auth)

-----------------------------------------------------------------------------
(* Frame and effect of delete; the list *)

\* The ids a request can name: those handed out and the next one
KnownIds == 1..(taskSeq + 1)

\* The stored tasks the caller of a created
Own(a) == {t \in tasks : creator[t.id] = Caller(a)}

(* C14: DELETE by the owner removes exactly the task with that id, answers
   200 {success: true} and leaves every other task and every user as it was;
   when no task has that id and the caller as owner it answers 404 and
   changes nothing, and once deleted the id matches no row again. *)
C14_DeleteExactlyOne ==
    \A a \in HeldHeaders : Authed(a) =>
        \A i \in KnownIds :
            LET o     == deleteTask(a, NumToString(i))
                match == {t \in Own(a) : t.id = i}
            IN  /\ o.users = users /\ o.userSeq = userSeq /\ o.taskSeq = taskSeq
                /\ IF match # {}
                   THEN /\ o.status = 200
                        /\ o.body = [kind |-> "success"]
                        /\ Cardinality(match) = 1
                        /\ o.tasks = tasks \ match
                        /\ Matching(o.tasks, JNum(i), Caller(a)) = {}
                   ELSE /\ o.status = 404
                        /\ o.tasks = tasks

\* The owner's delete was answered 200, the task is gone and others are stored
C14_Witness ==
    /\ last.op = "deleteTask"
    /\ last.status = 200
    /\ \E i \in 1..taskSeq : Absent(i) /\ NumToString(i) = last.id
    /\ tasks # {}

\* The ids of a list of rows, in order
IdsOf(rows) == [i \in 1..Len(rows) |-> rows[i].id]

(* C15: GET /api/tasks answers with exactly the tasks the caller owns, each
   once with its id, title and completed flag, in strictly descending order
   of id; a task just created has a greater id than every stored task and is
   first in its owner's list. *)
C15_ListExactAndDescending ==
    \A a \in HeldHeaders : Authed(a) =>
        LET rows == Rows(a)
        IN  /\ getTasks(a).status = 200
            /\ {rows[i] : i \in 1..Len(rows)}
                 = {[id |-> t.id, title |-> t.title, completed |-> CompletedOf(t)]
                    : t \in Own(a)}
            /\ Len(rows) = Cardinality(Own(a))
            /\ \A i, j \in 1..Len(rows) : i < j => rows[i].id > rows[j].id
            /\ \A b \in OnePostBody :
                  LET o == postTask(a, b)
                  IN  /\ \A t \in tasks : t.id < o.body.id
                      /\ Head(IdsOf(ListOf(o.tasks, a))) = o.body.id

\* A list of two or more tasks was served
C15_Witness ==
    /\ last.op = "getTasks"
    /\ last.status = 200
    /\ Len(Rows(last.auth)) >= 2
    /\ Own(last.auth) # tasks

-----------------------------------------------------------------------------
(* Validation of register *)

\* The text of an email or password that is a string or missing
TextOf(x) == IF typeof(x) = "string" THEN x.v ELSE <<>>

\* The trimmed email lacks "@" or the password has fewer than 4 characters
InvalidCredentials(body) ==
    \/ ~includes(trim(TextOf(body.email)), "@")
    \/ Len(TextOf(body.password)) < MinPassword

(* C16: a register request whose trimmed email lacks "@" or whose password
   has fewer than 4 characters is answered 400, creates no user and runs no
   statement, also when its email is already registered. *)
C16_ValidationBeforeDuplicate ==
    \A b \in AuthBodies : InvalidCredentials(b) =>
        LET o == registerArrival(b)
        IN  o.status = 400 /\ Untouched(o)

\* A registration naming a registered email with a short password was
\* answered 400
C16_Witness ==
    /\ last.op = "register"
    /\ last.status = 400
    /\ \E u \in users : /\ typeof(last.email) = "string"
                        /\ u.email = Normalize(last.email.v)

-----------------------------------------------------------------------------
(* Register, then login *)

\* The body carries the password user u registered with
PasswordMatches(body, u) == TextOf(body.password) = u.password_hash.of

(* C17: for every registered user, a login with the registered password and
   any case or whitespace variant of the registered email is answered 200
   with a valid token carrying that user's id and stored email, as every
   token issued to the user does; two valid tokens of one user list the same
   tasks, and a task created with one is listed with the other. *)
C17_RegisterLoginRoundTrip ==
    /\ \A u \in users : \A b \in AuthBodies :
          (NamesUser(b, u) /\ PasswordMatches(b, u)) =>
              LET o == login(b)
              IN  /\ o.status = 200
                  /\ o.body.kind = "token"
                  /\ o.body.token.id = u.id
                  /\ o.body.token.email = u.email
                  /\ verify(o.body.token)
    /\ \A h \in held : \E u \in users :
          h.token.id = u.id /\ h.token.email = u.email
    /\ \A a1, a2 \in HeldHeaders :
          (Authed(a1) /\ Authed(a2) /\ Caller(a1) = Caller(a2)) =>
              /\ Rows(a1) = Rows(a2)
              /\ \A b \in OnePostBody :
                    LET o == postTask(a1, b)
                    IN  RowsWithId(ListOf(o.tasks, a2), o.body.id) # {}

\* A login with a variant of the registered email was answered 200 while the
\* user holds two different tokens and has tasks
C17_Witness ==
    /\ last.op = "login"
    /\ last.status = 200
    /\ last.email = JStr(EmailAVar)
    /\ tasks # {}
    /\ \E h1, h2 \in held : /\ h1.token # h2.token
                            /\ h1.token.id = h2.token.id
                            /\ Authed(Bearer(h1.token))
                            /\ Authed(Bearer(h2.token))

-----------------------------------------------------------------------------
(* The two variants *)

\* Status and JSON shape of a response
Shape(o) == <<o.status, o.body.kind>>

(* C18: the sqlite variant and the postgres variant answer every request with
   the same status and the same body shape; in particular, on the same store,
   a DELETE by an authenticated caller on any path segment, numeric or not. *)
C18_VariantsAgree ==
    \A a \in HeldHeaders : Authed(a) =>
        \A i \in PathIds :
            Shape(deleteTaskIn("sqlite", a, i)) = Shape(deleteTaskIn("postgres", a, i))

\* ---------------------------------------------------------------------
\* C19  storage failures
\* ---------------------------------------------------------------------

\* What each route answers to the requests of this state
StorageOutcomes ==
    {registerArrival(b) : b \in OneUser}
    \cup {login(b) : b \in OneUser}
    \cup UNION {TaskRouteOutcomes(a) : a \in {h \in HeldHeaders : Authed(h)}}

\* No statement was run twice
NotRetried(stmts) ==
    \A i, j \in DOMAIN stmts : stmts[i] = stmts[j] => i = j

\* The store after the request is the store before it
StoreKept(o) ==
    /\ o.users = users /\ o.tasks = tasks
    /\ o.userSeq = userSeq /\ o.taskSeq = taskSeq

(* C19: while storage operations fail, every request that reaches a storage
   statement is answered in that request with status 500 and a JSON body
   {error: "Server error"}, the failing statement is not run again, and the
   store is left as it was. *)
C19_StorageFailureGeneric ==
    ~storageUp =>
        \A o \in StorageOutcomes : o.stmts # <<>> =>
            /\ o.status = 500
            /\ o.body = ErrorBody("Server error")
            /\ NotRetried(o.stmts)
            /\ StoreKept(o)

\* The same property of the postgres routes alone, which catch the failure
C19_PostgresGeneric ==
    (variant = "postgres") => C19_StorageFailureGeneric

\* A logged-in user's requests reach the failing storage
C19_Witness ==
    /\ ~storageUp
    /\ \E a \in HeldHeaders : Authed(a) /\ getTasks(a).status = 500

\* ---------------------------------------------------------------------
\* C20  concurrent edits of one task
\* ---------------------------------------------------------------------

\* The (title, completed) pair a PUT body sends, as it is stored
PairSent(b) == <<trim(b.title.v), b.completed.v>>

\* The (title, completed) pair of a stored task
PairOf(t) == <<t.title, CompletedOf(t)>>

\* Every PUT has been answered, the last one with 200
EditsDone == pendingPut = <<>> /\ last.op = "putTask" /\ last.status = 200

(* C20: once every PUT on a task has been answered, PUTs by its owner that
   each carried a title and a completed flag leave the task with the
   (title, completed) pair of one of them, never the title of one and the
   completed flag of another. *)
C20_LastWriteWins ==
    EditsDone =>
        \A t \in tasks : PairOf(t) \in {PairSent(b) : b \in ConcurrentPutBodies}

\* The same property of the sqlite route alone, which runs both UPDATEs
\* without yielding
C20_SqliteLastWriteWins ==
    (variant = "sqlite") => C20_LastWriteWins

\* ---------------------------------------------------------------------
\* C21  a PUT with both fields is one mutation
\* ---------------------------------------------------------------------

\* The (title, completed) pairs a task has before and after whole edits:
\* the pair it was created with and the pairs the PUTs send
WholePairs ==
    {<<trim(b.title.v), FALSE>> : b \in OnePostBody}
    \cup {PairSent(b) : b \in ConcurrentPutBodies}

\* The (title, completed) pairs of the rows GET /api/tasks answers with
PairsListed(a) ==
    LET rows == getTasks(a).body.rows
    IN  {<<rows[i].title, rows[i].completed>> : i \in DOMAIN rows}

(* C21: with one PUT carrying a title and a completed flag under way at a
   time, no GET /api/tasks lists the task with the new title and the old
   completed flag, and a PUT answered 200 has left the task stored with both
   of the values it sent. *)
C21_PutAtomic ==
    /\ \A a \in HeldHeaders : Authed(a) => PairsListed(a) \subseteq WholePairs
    /\ (last.op = "putTask" /\ last.status = 200) =>
          \E t \in tasks :
              /\ JNum(t.id) = Number(last.id)
              /\ PairOf(t) \in {PairSent(b) : b \in ConcurrentPutBodies}

\* The same property of the sqlite route alone
C21_SqlitePutAtomic ==
    (variant = "sqlite") => C21_PutAtomic

\* ---------------------------------------------------------------------
\* C22  referential integrity and cascade
\* ---------------------------------------------------------------------

\* Every task's owner_id is the id of a stored user
OwnersExist == \A t \in tasks : OwnerExists(t.owner_id)

\* Deleting any stored user removes that user's tasks and no other task
CascadeExact ==
    \A u \in users :
        /\ deleteUser(u.id).tasks = {t \in tasks : t.owner_id # u.id}
        /\ deleteUser(u.id).users = users \ {u}

(* C22: in every reachable state every task's owner_id is the id of a stored
   user, and deleting a user removes all of that user's tasks and no task of
   another user. *)
C22_ReferentialIntegrity == OwnersExist /\ CascadeExact

\* The same property of the databases this code created
C22_NewDatabaseIntegrity == ~legacy => C22_ReferentialIntegrity

\* A user owning a task was deleted while another user's task stayed
C22_NewDatabaseWitness ==
    /\ ~legacy
    /\ userSeq = 2 /\ Cardinality(users) = 1
    /\ tasks # {} /\ taskSeq > Cardinality(tasks)

\* ---------------------------------------------------------------------
\* C25  404 on PUT means no such task of the caller
\* ---------------------------------------------------------------------

\* The statuses PUT answers the owner of task t with, over every body
OwnerPutStatuses(a, t) ==
    {putTask(a, NumToString(t.id), b).status : b \in PutBodies}

(* C25: a PUT by the owner on a stored task of theirs is never answered 404,
   whatever the body: empty, with a title that is not a string, or with a
   completed that is not a boolean. *)
C25_NotFoundOnlyWhenAbsent ==
    \A a \in HeldHeaders : Authed(a) =>
        \A t \in Own(a) : 404 \notin OwnerPutStatuses(a, t)

\* What holds instead: 404 on an own task exactly when the body carries
\* neither a string title nor a boolean completed
C25_NotFoundWhenNothingToDo ==
    \A a \in HeldHeaders : Authed(a) =>
        \A t \in Own(a) : \A b \in PutBodies :
            putTask(a, NumToString(t.id), b).status = 404
                <=> (~HasTitle(b) /\ ~HasCompleted(b))

\* ---------------------------------------------------------------------
\* C26  two registrations of one email in flight (postgres)
\* ---------------------------------------------------------------------

\* What the register request in flight at position i is answered when its
\* INSERT runs now
InsertOutcome(i) ==
    registerInsert(EmailOf(pendingReg[i]), PasswordOf(pendingReg[i]))

\* The request in flight at position i lost: its SELECT found no user, and
\* another request has stored its email since
LostRace(i) == ~EmailUnique(EmailOf(pendingReg[i]))

(* C26: of register requests for one normalised email whose SELECTs all ran
   before any INSERT, one is answered 201 with a token and stores the user;
   every other one is answered 409 "Email already registered." and stores
   nothing. *)
C26_RaceLoserConflict ==
    \A i \in DOMAIN pendingReg :
        LET o == InsertOutcome(i)
        IN  IF LostRace(i)
            THEN /\ o.status = 409
                 /\ o.body = ErrorBody("Email already registered.")
                 /\ o.users = users
            ELSE /\ o.status = 201
                 /\ Cardinality(o.users) = Cardinality(users) + 1

\* What holds instead: the winner is answered 201, a loser 500, and the email
\* is stored once
C26_RaceLoserServerError ==
    \A i \in DOMAIN pendingReg :
        LET o == InsertOutcome(i)
        IN  IF LostRace(i)
            THEN /\ o.status = 500
                 /\ o.body = ErrorBody("Server error")
                 /\ o.users = users
            ELSE /\ o.status = 201
                 /\ Cardinality(o.users) = Cardinality(users) + 1

\* ---------------------------------------------------------------------
\* C24  the list sorted by due date, and by id
\* ---------------------------------------------------------------------

\* a.dueDate ?? a.due_date ?? ""
DueOf(t) == OrElse(t, "dueDate", OrElse(t, "due_date", <<>>))

HasDue(t) == DueOf(t) # <<>>

\* The tasks that pass the status filter, as they are in `tasks`
Filtered == SelectSeq(cTasks, shown)

\* v holds the elements of s, each as often as s does
Permutation(v, s) ==
    /\ Len(v) = Len(s)
    /\ \A x \in {s[i] : i \in DOMAIN s} \cup {v[i] : i \in DOMAIN v} :
          Cardinality({i \in DOMAIN v : v[i] = x})
              = Cardinality({i \in DOMAIN s : s[i] = x})

(* C24: with sortBy = due_date the listed tasks with a due date are in
   ascending order of it and every task without one comes after every task
   with one; with sortBy = newest the listed tasks are in descending id order;
   in both cases the list is a permutation of the tasks that pass the status
   filter. *)
C24_DueDateAndNewestOrder ==
    LET v == visibleTasks
    IN  /\ cSortBy = "due_date" =>
              \A i, j \in DOMAIN v : i < j =>
                  /\ HasDue(v[j]) => HasDue(v[i])
                  /\ (HasDue(v[i]) /\ HasDue(v[j])) =>
                        localeCompare(DueOf(v[i]), DueOf(v[j])) <= 0
        /\ cSortBy = "newest" =>
              \A i, j \in DOMAIN v : i < j => v[i].id > v[j].id
        /\ cSortBy \in {"due_date", "newest"} => Permutation(v, Filtered)

\* Sorted by due date: a list that held an undated task before the dated
\* ones, and the later date before the earlier
C24_Witness ==
    /\ cSortBy = "due_date"
    /\ Len(visibleTasks) = 3
    /\ Len(cTasks) = 3
    /\ ~HasDue(cTasks[1]) /\ HasDue(cTasks[2]) /\ HasDue(cTasks[3])
    /\ localeCompare(DueOf(cTasks[2]), DueOf(cTasks[3])) > 0
    /\ visibleTasks # cTasks

\* ---------------------------------------------------------------------
\* C27  the client's completed flag and the server's
\* ---------------------------------------------------------------------

\* The completed flag the server stores for task id
StoredFlag(id) == {CompletedOf(t) : t \in {x \in tasks : x.id = id}}

\* Every fetch has resolved, and none of them failed
Settled == cNet = <<>> /\ cError = ""

(* C27: once every toggleCompleted request has been answered 200 and its
   response handled, each task of the client's `tasks` state has the
   completed value the server stores for it, also when two toggles of a task
   were started before the first response arrived. *)
C27_ClientServerAgree ==
    Settled =>
        \A i \in DOMAIN cTasks : StoredFlag(cTasks[i].id) = {cTasks[i].completed}

\* ---------------------------------------------------------------------
\* C28  the client after logout
\* ---------------------------------------------------------------------

(* C28: while no token is held (from logout to the next successful
   submitAuth) the client's tasks are empty, editingId is null and error is
   empty, whatever responses arrive; and while a token is held, no task in
   the client's `tasks` state was created by another user. *)
C28_LogoutClearsSession ==
    /\ cToken = NoToken =>
          /\ cTasks = <<>>
          /\ cEditingId = 0
          /\ cError = ""
    /\ cToken # NoToken =>
          \A i \in DOMAIN cTasks :
              cTasks[i].id \in DOMAIN creator => creator[cTasks[i].id] = cToken.id

\* What holds of the session whatever arrives: without a token, editingId
\* is null
C28_LogoutClearsEditing ==
    cToken = NoToken => cEditingId = 0

\* ---------------------------------------------------------------------
\* C23  tokens are never revoked
\* ---------------------------------------------------------------------

\* The exp claim of token h has not been reached
Unexpired(h) == NowSeconds < h.token.exp

(* C23: every token issued is accepted by requireAuth as long as its exp
   claim has not been reached, whatever happened since it was issued: a later
   login, a logout in the client, the creation or deletion of tasks; and all
   unexpired tokens of a user list the same tasks, the tasks of that user. *)
C23_TokensNeverRevoked ==
    \A h \in held : Unexpired(h) =>
        /\ Authed(Bearer(h.token))
        /\ Accepted(h)
        /\ Rows(Bearer(h.token)) = listRows(tasks, h.token.id)
        /\ \A k \in held : (Unexpired(k) /\ k.token.id = h.token.id) =>
              Rows(Bearer(k.token)) = Rows(Bearer(h.token))

\* Two tokens issued at different times are both accepted after the client
\* logged out and a task was created
C23_Witness ==
    /\ cToken = NoToken
    /\ tasks # {}
    /\ \E h, k \in held : /\ h.token.iat < k.token.iat
                           /\ Unexpired(h) /\ Accepted(h)
                           /\ Unexpired(k) /\ Accepted(k)

\* ---------------------------------------------------------------------
\* C29  ids are never handed out twice
\* ---------------------------------------------------------------------

\* Every id stored was handed out by its sequence
IdsHandedOut ==
    /\ \A t \in tasks : t.id \in 1..taskSeq
    /\ \A u \in users : u.id \in 1..userSeq
    /\ \A t1, t2 \in tasks : t1.id = t2.id => t1 = t2
    /\ \A u1, u2 \in users : u1.id = u2.id => u1 = u2

\* A step hands out only ids above every id handed out before
IdsGrow ==
    /\ taskSeq' >= taskSeq
    /\ userSeq' >= userSeq
    /\ \A t \in tasks' : t.id \notin {x.id : x \in tasks} => t.id > taskSeq
    /\ \A u \in users' : u.id \notin {x.id : x \in users} => u.id > userSeq

\* The user token h was issued to is no longer stored
Stale(h) ==
    ~\E u \in users : u.id = h.token.id /\ u.email = h.token.email

\* Token h reads no task and changes none
ReachesNothing(h) ==
    LET a == Bearer(h.token)
    IN  /\ Rows(a) = <<>>
        /\ \A t \in tasks :
              /\ deleteTask(a, NumToString(t.id)).tasks = tasks
              /\ \A b \in PutBodies : putTask(a, NumToString(t.id), b).tasks = tasks

(* C29: every stored id was handed out by its sequence and to one row only;
   every step gives a new task an id above every task id handed out before,
   deleted tasks included, and a new user an id above every user id handed
   out before; so the token of a deleted user names no stored user, reads no
   task and changes none. *)
C29_IdsNeverReused ==
    /\ [](IdsHandedOut
           /\ \A h \in held : Stale(h) =>
                 ~OwnerExists(h.token.id) /\ ReachesNothing(h))
    /\ [][IdsGrow]_vars

\* A user was deleted, the same email registered again under a greater id
\* and with a task, while the token of the deleted user is still held
C29_Witness ==
    /\ tasks # {}
    /\ \E h \in held : /\ Stale(h)
                        /\ Authed(Bearer(h.token))
                        /\ \E u \in users : /\ u.email = h.token.email
                                             /\ u.id > h.token.id
                                             /\ \E t \in tasks : t.owner_id = u.id

====
